---- MODULE Spec2Model ----
(***************************************************************************)
(* A model of the ETF risk reporter: portfolio_risk_assessment.py (the     *)
(* multi-fund portfolio run) and etf_report.py (the single-fund report).   *)
(*                                                                         *)
(* Text (column labels, cell contents) is a sequence of one-character      *)
(* strings, so that lower-casing, substring tests, character stripping and *)
(* number parsing are computed, not assumed.  Floating point numbers are   *)
(* exact rationals <<numerator, denominator>> in lowest terms with a       *)
(* positive denominator; <<0, 0>> is the float NaN.  Rounding error of the *)
(* IEEE arithmetic is therefore not modelled.                              *)
(***************************************************************************)
EXTENDS Integers, Sequences, FiniteSets, TLC

VARIABLES
    prog,         \* which script runs: "portfolio" or "etf"
    pc,           \* position of the running script
    csv_files,    \* portfolio: the files find_csv_files() returned, in sorted order
    fidx,         \* portfolio: index of the next file of the loader loop
    mapping,      \* portfolio: detect_columns() result for the file read last
    funds,        \* portfolio: the accepted fund tables
    port_df,      \* portfolio: the rows collected from all funds
    key,          \* portfolio: "isin" or "name", the consolidation key
    agg,          \* portfolio: the consolidated, sorted holdings
    output_csv,   \* portfolio: TRUE once portfolio_summary.csv is written
    exit_status,  \* process exit status; -1 while running
    etf_raw,      \* etf: what fetch_holdings() returns (or fails to)
    df,           \* etf: the table normalize() returned
    hhi,          \* the HHI computed (portfolio line 162, etf line 68)
    seventy       \* etf: the table minimal_70() returned

vars == <<prog, pc, csv_files, fidx, mapping, funds, port_df, key, agg,
          output_csv, exit_status, etf_raw, df, hhi, seventy>>

-----------------------------------------------------------------------------
(* Bounds of the model.                                                    *)

\* most files in the working directory of a portfolio run
MaxFiles == 2
\* most data rows of one file of a portfolio run
MaxRows == 2
\* most data rows over all the files of a portfolio run
MaxPortRows == 2
\* most columns of a table whose labels are drawn freely
MaxCols == 3
\* most data rows of the table the single-fund report fetches
MaxEtfRows == 3

-----------------------------------------------------------------------------
(* Text.                                                                   *)

UpperCase == <<"A","B","C","D","E","F","G","H","I","J","K","L","M",
               "N","O","P","Q","R","S","T","U","V","W","X","Y","Z">>
LowerCase == <<"a","b","c","d","e","f","g","h","i","j","k","l","m",
               "n","o","p","q","r","s","t","u","v","w","x","y","z">>

UpperSet == {UpperCase[i] : i \in 1..Len(UpperCase)}

\* str.lower() of one character
LowerChar(c) ==
    IF c \in UpperSet
    THEN LowerCase[CHOOSE i \in 1..Len(UpperCase) : UpperCase[i] = c]
    ELSE c

\* str.lower()
Lower(s) == [i \in 1..Len(s) |-> LowerChar(s[i])]

\* Python's  t in s  for strings
Contains(s, t) ==
    \E k \in 0..(Len(s) - Len(t)) : SubSeq(s, k + 1, k + Len(t)) = t

\* str.replace(c, d) for single characters
ReplaceChar(s, c, d) == [i \in 1..Len(s) |-> IF s[i] = c THEN d ELSE s[i]]

\* str.replace(c, '') for a single character
StripChar(s, c) == SelectSeq(s, LAMBDA x : x # c)

\* a missing value (pandas NaN) in a column of text
NaN == <<"N", "a", "N">>

\* the cell texts pandas.read_csv reads as missing
NaValues == {<<>>, <<"N", "a", "N">>, <<"n", "a", "n">>, <<"N", "A">>}

\* one cell as pandas.read_csv delivers it
ReadCell(text) == IF text \in NaValues THEN NaN ELSE text

-----------------------------------------------------------------------------
(* Exact arithmetic standing for the floats.                               *)

Abs(n) == IF n < 0 THEN -n ELSE n

RECURSIVE GCD(_, _)
GCD(a, b) == IF b = 0 THEN a ELSE GCD(b, a % b)

NaNw == <<0, 0>>
IsNaNw(x) == x[2] = 0

\* n/d in lowest terms, d # 0
Rat(n, d) ==
    LET g == GCD(Abs(n), Abs(d))
        s == IF d < 0 THEN -1 ELSE 1
    IN  <<s * (n \div g), s * (d \div g)>>

RInt(n) == <<n, 1>>

RAdd(a, b) ==
    IF IsNaNw(a) \/ IsNaNw(b) THEN NaNw
    ELSE LET g == GCD(a[2], b[2])
         IN  Rat(a[1] * (b[2] \div g) + b[1] * (a[2] \div g), (a[2] \div g) * b[2])

RMul(a, b) ==
    IF IsNaNw(a) \/ IsNaNw(b) THEN NaNw
    ELSE LET x == Rat(a[1], b[2])
             y == Rat(b[1], a[2])
         IN  <<x[1] * y[1], x[2] * y[2]>>

\* a / b for b a nonzero number
RDiv(a, b) ==
    IF IsNaNw(a) \/ IsNaNw(b) THEN NaNw
    ELSE RMul(a, Rat(b[2], b[1]))

\* comparisons of floats: False when either side is NaN
RLess(a, b) == ~IsNaNw(a) /\ ~IsNaNw(b) /\ a[1] * b[2] < b[1] * a[2]
RLeq(a, b)  == ~IsNaNw(a) /\ ~IsNaNw(b) /\ a[1] * b[2] <= b[1] * a[2]

\* Series.sum(): missing values are skipped, the empty sum is 0
RECURSIVE RSum(_)
RSum(s) ==
    IF s = <<>> THEN RInt(0)
    ELSE IF IsNaNw(s[Len(s)]) THEN RSum(SubSeq(s, 1, Len(s) - 1))
    ELSE RAdd(RSum(SubSeq(s, 1, Len(s) - 1)), s[Len(s)])

-----------------------------------------------------------------------------
(* float(text), for the decimal notation  [sign] digits [. digits].        *)
(* Exponents, "inf" and surrounding blanks are left out of the model.      *)

Digits == <<"0", "1", "2", "3", "4", "5", "6", "7", "8", "9">>
IsDigit(c) == \E i \in 1..10 : Digits[i] = c
DigitVal(c) == (CHOOSE i \in 1..10 : Digits[i] = c) - 1

RECURSIVE DigitsVal(_)
DigitsVal(s) ==
    IF s = <<>> THEN 0
    ELSE DigitsVal(SubSeq(s, 1, Len(s) - 1)) * 10 + DigitVal(s[Len(s)])

RECURSIVE Pow10(_)
Pow10(k) == IF k = 0 THEN 1 ELSE 10 * Pow10(k - 1)

Unsigned(t) == IF t # <<>> /\ t[1] \in {"-", "+"} THEN Tail(t) ELSE t

IsNanText(t) == Lower(Unsigned(t)) = <<"n", "a", "n">>

IsDecimal(t) ==
    LET b    == Unsigned(t)
        dots == {i \in 1..Len(b) : b[i] = "."}
    IN  /\ Cardinality(dots) <= 1
        /\ \A i \in 1..Len(b) : i \in dots \/ IsDigit(b[i])
        /\ Len(b) > Cardinality(dots)

\* float(t) succeeds
CanFloat(t) == IsNanText(t) \/ IsDecimal(t)

\* float(t), where CanFloat(t): the digits over the power of ten that the
\* position of the decimal point gives
FloatOf(t) ==
    IF IsNanText(t) THEN NaNw
    ELSE LET b    == Unsigned(t)
             sgn  == IF t[1] = "-" THEN -1 ELSE 1
             ds   == StripChar(b, ".")
             dot  == IF \E i \in 1..Len(b) : b[i] = "."
                     THEN CHOOSE i \in 1..Len(b) : b[i] = "."
                     ELSE Len(b) + 1
         IN  Rat(sgn * DigitsVal(ds), Pow10(IF dot <= Len(b) THEN Len(b) - dot ELSE 0))

\* Series.astype(str) of one cell
AsStr(cell) == IF cell = NaN THEN <<"n", "a", "n">> ELSE cell

\* .astype(str).str.replace('%','').str.replace(',','') of one cell
CleanWeight(cell) == StripChar(StripChar(AsStr(cell), "%"), ",")

-----------------------------------------------------------------------------
(* detect_columns.                                                         *)

K_isin == <<"i", "s", "i", "n">>
K_name == <<"n", "a", "m", "e">>
K_asset_class_sp == <<"a", "s", "s", "e", "t", " ", "c", "l", "a", "s", "s">>
K_asset_class_us == <<"a", "s", "s", "e", "t", "_", "c", "l", "a", "s", "s">>
K_assetclass == <<"a", "s", "s", "e", "t", "c", "l", "a", "s", "s">>
K_currency == <<"c", "u", "r", "r", "e", "n", "c", "y">>
K_weight == <<"w", "e", "i", "g", "h", "t">>
K_sector == <<"s", "e", "c", "t", "o", "r">>
K_country == <<"c", "o", "u", "n", "t", "r", "y">>
K_holding == <<"h", "o", "l", "d", "i", "n", "g">>
K_security == <<"s", "e", "c", "u", "r", "i", "t", "y">>
K_security_id == <<"s", "e", "c", "u", "r", "i", "t", "y", " ", "i", "d">>
K_geography == <<"g", "e", "o", "g", "r", "a", "p", "h", "y">>
K_region == <<"r", "e", "g", "i", "o", "n">>
K_pct == <<"%">>

\* the keys of the generic pass, in the order of the loop
Keys == <<K_isin, K_name, K_asset_class_sp, K_asset_class_us, K_assetclass,
          K_currency, K_weight, K_sector, K_country>>

\* dict assignment m[k] = v
Put(m, k, v) == [x \in (DOMAIN m) \cup {k} |-> IF x = k THEN v ELSE m[x]]

EmptyDict == [x \in {} |-> <<>>]

\* cols = {c.lower(): c for c in df.columns}, as the ordered list of its items:
\* a label whose lower-case form is already there replaces the value in place
RECURSIVE ColsDict(_)
ColsDict(columns) ==
    IF columns = <<>> THEN <<>>
    ELSE LET rest == ColsDict(SubSeq(columns, 1, Len(columns) - 1))
             c    == columns[Len(columns)]
             l    == Lower(c)
         IN  IF \E i \in 1..Len(rest) : rest[i].lower = l
             THEN [i \in 1..Len(rest) |->
                      IF rest[i].lower = l THEN [lower |-> l, orig |-> c] ELSE rest[i]]
             ELSE Append(rest, [lower |-> l, orig |-> c])

\* the test of the generic pass
KeyMatches(k, lower) ==
    Contains(lower, ReplaceChar(k, "_", " ")) \/ Contains(lower, k)

\* the inner loop of the generic pass for one key: it runs over every item and
\* assigns at each match
RECURSIVE ScanKey(_, _, _)
ScanKey(m, k, cols) ==
    IF cols = <<>> THEN m
    ELSE ScanKey(IF KeyMatches(k, cols[1].lower) THEN Put(m, k, cols[1].orig) ELSE m,
                 k, Tail(cols))

\* the generic pass over the keys ks
RECURSIVE GenericPass(_, _, _)
GenericPass(m, ks, cols) ==
    IF ks = <<>> THEN m
    ELSE GenericPass(ScanKey(m, ks[1], cols), Tail(ks), cols)

\* one fallback: when k is unresolved, the first item whose lower-case label
\* contains one of subs
Fallback(m, k, subs, cols) ==
    LET hits == {i \in 1..Len(cols) : \E s \in subs : Contains(cols[i].lower, s)}
    IN  IF k \in DOMAIN m \/ hits = {} THEN m
        ELSE Put(m, k, cols[CHOOSE i \in hits : \A j \in hits : i <= j].orig)

detect_columns(columns) ==
    LET cols == ColsDict(columns)
        m0 == GenericPass(EmptyDict, Keys, cols)
        m1 == Fallback(m0, K_name, {K_name, K_holding, K_security}, cols)
        m2 == Fallback(m1, K_weight, {K_weight, K_pct}, cols)
        m3 == Fallback(m2, K_isin, {K_isin, K_security_id}, cols)
        m4 == Fallback(m3, K_sector, {K_sector}, cols)
    IN  Fallback(m4, K_country, {K_country, K_geography, K_region}, cols)

-----------------------------------------------------------------------------
(* The fund loader of portfolio_risk_assessment.main.                      *)

\* pandas.read_csv of a readable file: the rows, each cell by column position
ReadCsv(f) == [i \in 1..Len(f.data) |-> [j \in 1..Len(f.columns) |-> ReadCell(f.data[i][j])]]

ColIndex(columns, label) == CHOOSE j \in 1..Len(columns) : columns[j] = label

\* the canonical column names of the projected table (lines 95-96)
Canonical(m) ==
    {"name", "weight"}
        \cup (IF K_isin \in DOMAIN m THEN {"isin"} ELSE {})
        \cup (IF K_sector \in DOMAIN m THEN {"sector"} ELSE {})
        \cup (IF K_country \in DOMAIN m THEN {"country"} ELSE {})

KeyOf(col) ==
    CASE col = "name" -> K_name
      [] col = "weight" -> K_weight
      [] col = "isin" -> K_isin
      [] col = "sector" -> K_sector
      [] col = "country" -> K_country

\* lines 95-96: the table projected on the resolved columns and renamed
Project(f, m) ==
    LET t == ReadCsv(f)
    IN  [i \in 1..Len(t) |->
            [col \in Canonical(m) |-> t[i][ColIndex(f.columns, m[KeyOf(col)])]]]

\* .astype(float) of the cleaned weight column succeeds
WeightsParse(weights) == \A i \in 1..Len(weights) : CanFloat(CleanWeight(weights[i]))

\* normalize_weights: the parsed column, times 100 when its sum is below 1.5
normalize_weights(weights) ==
    LET s == [i \in 1..Len(weights) |-> FloatOf(CleanWeight(weights[i]))]
    IN  IF RLess(RSum(s), Rat(3, 2))
        THEN [i \in 1..Len(s) |-> RMul(s[i], RInt(100))]
        ELSE s

\* the rescaling left out
Rescale_Skipped(s, total) == s

\* the factor inverted: total / 100.0
Rescale_Inverted(s, total) == [i \in 1..Len(s) |-> RMul(s[i], RDiv(total, RInt(100)))]

\* line 103: df["weight"] * (100.0 / total)
Rescale(s, total) == [i \in 1..Len(s) |-> RMul(s[i], RDiv(RInt(100), total))]

-----------------------------------------------------------------------------
(* The portfolio aggregator of portfolio_risk_assessment.main.             *)

\* r.get(col, default) on a row of a fund table
Get(r, col, default) == IF col \in DOMAIN r THEN r[col] ELSE default

\* the placeholder '' that r.get gives for a column the fund does not have
EmptyText == <<>>

\* lines 121-130: the rows one fund contributes
FundRows(fund, mult) ==
    [i \in 1..Len(fund.df) |->
        LET r == fund.df[i]
        IN  [source_file |-> fund.file,
             name |-> Get(r, "name", EmptyText),
             isin |-> Get(r, "isin", EmptyText),
             sector |-> Get(r, "sector", EmptyText),
             country |-> Get(r, "country", EmptyText),
             fund_weight_pct |-> Get(r, "weight", RInt(0)),
             portfolio_weight_pct |-> RMul(Get(r, "weight", RInt(0)), mult)]]

\* lines 109-131: every fund's rows, fund after fund, each at the equal
\* multiplier 1.0/num_funds
RECURSIVE CollectRows(_, _)
CollectRows(fs, mult) ==
    IF fs = <<>> THEN <<>>
    ELSE CollectRows(SubSeq(fs, 1, Len(fs) - 1), mult) \o FundRows(fs[Len(fs)], mult)

PortfolioRows(fs) == CollectRows(fs, Rat(1, Len(fs)))

\* line 133: port_df["isin"].notna().sum() > 0
ChooseKey(rows) ==
    IF \E i \in 1..Len(rows) : rows[i].isin # NaN THEN "isin" ELSE "name"

\* the group key of a row; groupby drops a row with a missing key value
GroupKey(r, k) == IF k = "isin" THEN <<r.isin, r.name>> ELSE <<r.name>>
HasKey(r, k) == \A j \in 1..Len(GroupKey(r, k)) : GroupKey(r, k)[j] # NaN

\* lambda x: x.dropna().iloc[0] if len(x.dropna())>0 else ""
FirstNotNa(xs) ==
    LET kept == SelectSeq(xs, LAMBDA x : x # NaN)
    IN  IF Len(kept) > 0 THEN kept[1] ELSE EmptyText

Column(rows, col) == [i \in 1..Len(rows) |-> rows[i][col]]

\* lines 134-145: one consolidated holding per group
GroupRecord(rows, k, g) ==
    LET members == SelectSeq(rows, LAMBDA r : HasKey(r, k) /\ GroupKey(r, k) = g)
        common  == [sector |-> FirstNotNa(Column(members, "sector")),
                    country |-> FirstNotNa(Column(members, "country")),
                    portfolio_weight_pct |-> RSum(Column(members, "portfolio_weight_pct"))]
    IN  IF k = "isin"
        THEN [isin |-> g[1], name |-> g[2]] @@ common
        ELSE [name |-> g[1]] @@ common

Groups(rows, k) ==
    {GroupRecord(rows, k, GroupKey(rows[i], k)) : i \in {j \in 1..Len(rows) : HasKey(rows[j], k)}}

\* sort_values(ascending=False) with the default, unstable, sort: any order
\* of the positions of ws that is descending, missing values last
RECURSIVE SortedOrders(_, _)
SortedOrders(ws, left) ==
    IF left = {} THEN {<<>>}
    ELSE LET nums  == {i \in left : ~IsNaNw(ws[i])}
             first == IF nums = {} THEN left
                      ELSE {i \in nums : \A j \in nums : RLeq(ws[j], ws[i])}
         IN  UNION {{<<i>> \o t : t \in SortedOrders(ws, left \ {i})} : i \in first}

\* the tables sort_values(by=col, ascending=False) can return
SortValues(rows, col) ==
    {[i \in 1..Len(rows) |-> rows[o[i]]] :
        o \in SortedOrders(Column(rows, col), 1..Len(rows))}

\* the order of the characters (their code points)
Alphabet == <<" ", "%", "(", ")", ",", "-", ".",
              "0", "1", "2", "3", "4", "5", "6", "7", "8", "9",
              "A","B","C","D","E","F","G","H","I","J","K","L","M",
              "N","O","P","Q","R","S","T","U","V","W","X","Y","Z", "_",
              "a","b","c","d","e","f","g","h","i","j","k","l","m",
              "n","o","p","q","r","s","t","u","v","w","x","y","z">>
CharRank(c) == CHOOSE i \in 1..Len(Alphabet) : Alphabet[i] = c

\* s < t for strings
RECURSIVE StrLess(_, _)
StrLess(s, t) ==
    IF t = <<>> THEN FALSE
    ELSE IF s = <<>> THEN TRUE
    ELSE IF s[1] = t[1] THEN StrLess(Tail(s), Tail(t))
    ELSE CharRank(s[1]) < CharRank(t[1])

\* g < h for group keys (tuples of strings of one length)
RECURSIVE KeyLess(_, _)
KeyLess(g, h) ==
    IF g = <<>> THEN FALSE
    ELSE IF g[1] = h[1] THEN KeyLess(Tail(g), Tail(h))
    ELSE StrLess(g[1], h[1])

\* groupby(...).agg(...).reset_index(): the groups in the order of their keys
RECURSIVE InKeyOrder(_, _)
InKeyOrder(G, k) ==
    IF G = {} THEN <<>>
    ELSE LET x == CHOOSE y \in G : \A z \in G \ {y} : KeyLess(GroupKey(y, k), GroupKey(z, k))
         IN  <<x>> \o InKeyOrder(G \ {x}, k)

\* fillna(0)
FillNa0(w) == IF IsNaNw(w) THEN RInt(0) ELSE w

\* lines 161-162 and etf_report line 68: the sum of (weight/100)^2
HHI(ws) ==
    RSum([i \in 1..Len(ws) |->
            LET f == RDiv(ws[i], RInt(100)) IN RMul(f, f)])

-----------------------------------------------------------------------------
(* The inputs: the tables a run can meet.                                  *)

L_Name == <<"N", "a", "m", "e">>
L_NAME == <<"N", "A", "M", "E">>
L_FundName == <<"F", "u", "n", "d", " ", "N", "a", "m", "e">>
L_Holding == <<"H", "o", "l", "d", "i", "n", "g">>
L_Weight == <<"W", "e", "i", "g", "h", "t">>
L_WeightPct == <<"W", "e", "i", "g", "h", "t", " ", "(", "%", ")">>
L_Pct == <<"%">>
L_ISIN == <<"I", "S", "I", "N">>
L_Sector == <<"S", "e", "c", "t", "o", "r">>
L_Country == <<"C", "o", "u", "n", "t", "r", "y">>
L_Ticker == <<"T", "i", "c", "k", "e", "r">>

T_50pct == <<"5", "0", "%">>
T_30 == <<"3", "0">>
T_0_5 == <<"0", ".", "5">>
T_0_3 == <<"0", ".", "3">>
T_m20 == <<"-", "2", "0">>
T_abc == <<"a", "b", "c">>
T_100 == <<"1", "0", "0">>
T_0 == <<"0">>
T_50 == <<"5", "0">>
T_A == <<"A">>
T_B == <<"B">>
T_X == <<"X">>
T_Tech == <<"T">>
T_US == <<"U">>
T_empty == <<>>

\* the sequences over S of a length in lens
SeqsOf(S, lens) == UNION {[1..n -> S] : n \in lens}

File(columns, data) == [readable |-> TRUE, columns |-> columns, data |-> data]

Unreadable == [readable |-> FALSE, columns |-> <<>>, data |-> <<>>]

\* weight cells: percentages with and without the sign, fractions, a negative
\* weight, a text that is no number, an empty cell, zero
WeightTexts == {T_50pct, T_30, T_0_5, T_0_3, T_m20, T_abc, T_empty, T_100, T_0}

\* one fund, every weight column over WeightTexts
WeightFiles ==
    {File(<<L_Name, L_WeightPct>>, d) :
        d \in SeqsOf({<<T_A, w>> : w \in WeightTexts}, 1..MaxRows)}

\* holdings as (name, weight, isin, sector, country): one complete, one with
\* only a name, one sharing the ISIN under another name, one without a name
Holdings ==
    {<<T_A, T_50, T_X, T_Tech, T_US>>,
     <<T_A, T_30, T_empty, T_empty, T_empty>>,
     <<T_B, T_50, T_X, T_empty, T_US>>,
     <<T_empty, T_30, T_X, T_Tech, T_empty>>}

\* the column layouts of the fund files, as positions of a holding
Layouts ==
    {[columns |-> <<L_Name, L_Weight>>, fields |-> <<1, 2>>],
     [columns |-> <<L_Name, L_Weight, L_ISIN>>, fields |-> <<1, 2, 3>>],
     [columns |-> <<L_Name, L_Weight, L_Sector, L_Country>>, fields |-> <<1, 2, 4, 5>>]}

\* funds with and without ISIN, sector and country columns
HoldingFiles ==
    UNION {{File(l.columns, d) :
               d \in SeqsOf({[j \in 1..Len(l.fields) |-> h[l.fields[j]]] : h \in Holdings},
                            1..MaxRows)} : l \in Layouts}

\* files that fail each in its own way, and one that loads
FaultFiles ==
    {Unreadable,
     File(<<L_Name, L_Ticker>>, <<<<T_A, T_B>>>>),
     File(<<L_Name, L_Weight>>, <<<<T_A, T_abc>>>>),
     File(<<L_Name, L_Weight>>, <<<<T_A, T_0>>>>),
     File(<<L_Name, L_Weight>>, <<>>),
     File(<<L_Name, L_Weight>>, <<<<T_A, T_100>>>>)}

\* column labels drawn freely
LabelPool == {L_Name, L_NAME, L_FundName, L_Holding, L_Weight, L_WeightPct,
              L_Pct, L_ISIN, L_Sector}

Headers ==
    {h \in SeqsOf(LabelPool, 1..MaxCols) :
        \A i, j \in 1..Len(h) : i # j => h[i] # h[j]}

\* the cell under a label: a weight under a weight label, else a name
CellFor(label) ==
    IF Contains(Lower(label), K_weight) \/ Contains(label, K_pct) THEN T_50 ELSE T_A

HeaderFiles ==
    {File(h, <<[j \in 1..Len(h) |-> CellFor(h[j])]>>) : h \in Headers}

\* the sequences of n files of F with at most rows data rows in all
RECURSIVE FileSeqs(_, _, _)
FileSeqs(F, n, rows) ==
    IF n = 0 THEN {<<>>}
    ELSE UNION {{<<f>> \o fs : fs \in FileSeqs(F, n - 1, rows - Len(f.data))} :
                   f \in {g \in F : Len(g.data) + (n - 1) <= rows}}

\* the directories a portfolio run can find
Directories ==
    {<<f>> : f \in WeightFiles \cup HeaderFiles}
        \cup UNION {FileSeqs(HoldingFiles, n, MaxPortRows) : n \in 1..MaxFiles}
        \cup SeqsOf(FaultFiles, 0..MaxFiles)

\* what the single-fund report can fetch: a failed request, or a table
EtfHeaders == {<<L_Name, L_WeightPct>>, <<L_Holding, L_Pct>>, <<L_Ticker, L_Weight>>,
               <<L_Name, L_Sector>>}

EtfTables ==
    {[readable |-> FALSE, columns |-> <<>>, data |-> <<>>]}
        \cup {File(h, d) : h \in EtfHeaders,
                           d \in SeqsOf({<<T_A, w>> : w \in WeightTexts}, 0..MaxEtfRows)}

NoTable == [readable |-> FALSE, columns |-> <<>>, data |-> <<>>]

-----------------------------------------------------------------------------
(* portfolio_risk_assessment.main                                          *)

Init ==
    /\ prog \in {"portfolio", "etf"}
    /\ pc = "start"
    /\ csv_files \in (IF prog = "portfolio" THEN Directories ELSE {<<>>})
    /\ etf_raw \in (IF prog = "etf" THEN EtfTables ELSE {NoTable})
    /\ fidx = 1
    /\ mapping = EmptyDict
    /\ funds = <<>>
    /\ port_df = <<>>
    /\ key = "none"
    /\ agg = <<>>
    /\ output_csv = FALSE
    /\ exit_status = -1
    /\ df = <<>>
    /\ hhi = NaNw
    /\ seventy = <<>>

\* sys.exit(status), or an uncaught exception (status 1)
Exit(status) == pc' = "exited" /\ exit_status' = status

\* lines 75-79: no file at all ends the run
NoCsvFiles ==
    /\ prog = "portfolio" /\ pc = "start"
    /\ csv_files = <<>>
    /\ Exit(1)
    /\ UNCHANGED <<prog, csv_files, fidx, mapping, funds, port_df, key, agg,
                   output_csv, etf_raw, df, hhi, seventy>>

StartLoop ==
    /\ prog = "portfolio" /\ pc = "start"
    /\ csv_files # <<>>
    /\ pc' = "load"
    /\ UNCHANGED <<prog, csv_files, fidx, mapping, funds, port_df, key, agg,
                   output_csv, exit_status, etf_raw, df, hhi, seventy>>

\* the continue statements of the loop
NextFile ==
    /\ fidx' = fidx + 1
    /\ UNCHANGED <<prog, pc, csv_files, funds, port_df, key, agg,
                   output_csv, exit_status, etf_raw, df, hhi, seventy>>

\* lines 81-85: the file cannot be read
ReadFails(f) ==
    /\ ~f.readable
    /\ UNCHANGED mapping
    /\ NextFile

\* line 87: both required columns are resolved
Resolved(m) == K_name \in DOMAIN m /\ K_weight \in DOMAIN m

\* lines 86-89: no name or no weight column
ColumnsMissing(f, m) ==
    /\ f.readable
    /\ ~Resolved(m)
    /\ mapping' = m
    /\ NextFile

\* line 97: a weight that is no number raises ValueError, which nothing catches
WeightParseError(f, m, raw) ==
    /\ f.readable
    /\ Resolved(m)
    /\ ~WeightsParse(raw)
    /\ mapping' = m
    /\ Exit(1)
    /\ UNCHANGED <<prog, csv_files, fidx, funds, port_df, key, agg,
                   output_csv, etf_raw, df, hhi, seventy>>

\* line 100: total <= 0
Degenerate(total) == RLeq(total, RInt(0))

\* lines 99-102: the weights sum to nothing
DegenerateTotal(f, m, raw) ==
    /\ f.readable
    /\ Resolved(m)
    /\ WeightsParse(raw)
    /\ Degenerate(RSum(normalize_weights(raw)))
    /\ mapping' = m
    /\ NextFile

\* lines 97-103: the fund table, its weights normalized and rescaled to the total
LoadedTable(t) ==
    LET s == normalize_weights(Column(t, "weight"))
        w == Rescale(s, RSum(s))
    IN  [i \in 1..Len(t) |-> [t[i] EXCEPT !["weight"] = w[i]]]

\* lines 90-104: the fund is accepted
AcceptFund(f, m, t, raw) ==
    /\ f.readable
    /\ Resolved(m)
    /\ WeightsParse(raw)
    /\ ~Degenerate(RSum(normalize_weights(raw)))
    /\ mapping' = m
    /\ funds' = Append(funds, [file |-> fidx, df |-> LoadedTable(t)])
    /\ fidx' = fidx + 1
    /\ UNCHANGED <<prog, pc, csv_files, port_df, key, agg,
                   output_csv, exit_status, etf_raw, df, hhi, seventy>>

\* lines 80-104: one pass of the loop over csv_files
LoadFund ==
    /\ prog = "portfolio" /\ pc = "load" /\ fidx <= Len(csv_files)
    /\ LET f   == csv_files[fidx]
           m   == detect_columns(f.columns)
           t   == Project(f, m)
           raw == Column(t, "weight")
       IN  \/ ReadFails(f)
           \/ ColumnsMissing(f, m)
           \/ WeightParseError(f, m, raw)
           \/ DegenerateTotal(f, m, raw)
           \/ AcceptFund(f, m, t, raw)

LoopDone == prog = "portfolio" /\ pc = "load" /\ fidx > Len(csv_files)

\* lines 105-107: no fund was accepted
NoValidFunds ==
    /\ LoopDone
    /\ funds = <<>>
    /\ Exit(1)
    /\ UNCHANGED <<prog, csv_files, fidx, mapping, funds, port_df, key, agg,
                   output_csv, etf_raw, df, hhi, seventy>>

\* lines 109-145: the rows of all funds, the key, the groups
Consolidate ==
    /\ LoopDone
    /\ funds # <<>>
    /\ port_df' = PortfolioRows(funds)
    /\ key' = ChooseKey(port_df')
    /\ agg' = InKeyOrder(Groups(port_df', key'), key')
    /\ pc' = "metrics"
    /\ UNCHANGED <<prog, csv_files, fidx, mapping, funds,
                   output_csv, exit_status, etf_raw, df, hhi, seventy>>

\* lines 147-162: the holdings sorted by weight, and the HHI over all of them
Metrics ==
    /\ prog = "portfolio" /\ pc = "metrics"
    /\ agg' \in SortValues(agg, "portfolio_weight_pct")
    /\ hhi' = HHI([i \in 1..Len(agg') |-> FillNa0(agg'[i].portfolio_weight_pct)])
    /\ pc' = "report"
    /\ UNCHANGED <<prog, csv_files, fidx, mapping, funds, port_df, key,
                   output_csv, exit_status, etf_raw, df, seventy>>

\* lines 148 and 159 on a table without rows (groupby dropped every one):
\* apply(axis=1) gives no boolean column there, and whether the selection by
\* it raises depends on the pandas at hand; the run may end here
MetricsOnEmptyFail ==
    /\ prog = "portfolio" /\ pc = "metrics"
    /\ agg = <<>>
    /\ Exit(1)
    /\ UNCHANGED <<prog, csv_files, fidx, mapping, funds, port_df, key, agg,
                   output_csv, etf_raw, df, hhi, seventy>>

\* lines 164-178: the first row of the top-20 loop reads r.columns of a
\* Series, which raises AttributeError; nothing catches it
ReportFails ==
    /\ prog = "portfolio" /\ pc = "report"
    /\ agg # <<>>
    /\ Exit(1)
    /\ UNCHANGED <<prog, csv_files, fidx, mapping, funds, port_df, key, agg,
                   output_csv, etf_raw, df, hhi, seventy>>

\* lines 164-192 with no row to print: the summary is written
ReportWritten ==
    /\ prog = "portfolio" /\ pc = "report"
    /\ agg = <<>>
    /\ output_csv' = TRUE
    /\ Exit(0)
    /\ UNCHANGED <<prog, csv_files, fidx, mapping, funds, port_df, key, agg,
                   etf_raw, df, hhi, seventy>>

-----------------------------------------------------------------------------
(* etf_report.py                                                           *)

\* line 44: the columns whose lower-case label holds name, holding or security
EtfNameCols(columns) ==
    {j \in 1..Len(columns) :
        \E k \in {K_name, K_holding, K_security} : Contains(Lower(columns[j]), k)}

\* line 45: the columns with "weight" in the lower-case label or "%" in the label
EtfWeightCols(columns) ==
    {j \in 1..Len(columns) :
        Contains(Lower(columns[j]), K_weight) \/ Contains(columns[j], K_pct)}

Least(S) == CHOOSE i \in S : \A j \in S : i <= j

\* lines 46-47: the two columns, renamed
EtfProject(f) ==
    LET t == ReadCsv(f)
    IN  [i \in 1..Len(t) |->
            [name |-> t[i][Least(EtfNameCols(f.columns))],
             weight |-> t[i][Least(EtfWeightCols(f.columns))]]]

\* normalize() returns: both columns are found and every weight is a number
EtfNormalizes(f) ==
    /\ f.readable
    /\ EtfNameCols(f.columns) # {} /\ EtfWeightCols(f.columns) # {}
    /\ WeightsParse(Column(EtfProject(f), "weight"))

\* lines 48-49: the parsed weights, times 100 when their sum is below 1.5
EtfWeights(f) ==
    LET t == EtfProject(f)
        s == normalize_weights(Column(t, "weight"))
    IN  [i \in 1..Len(t) |-> [t[i] EXCEPT !["weight"] = s[i]]]

\* line 99: fetch_holdings raises, or normalize raises IndexError or ValueError
EtfNormalizeFails ==
    /\ prog = "etf" /\ pc = "start"
    /\ ~EtfNormalizes(etf_raw)
    /\ Exit(1)
    /\ UNCHANGED <<prog, csv_files, fidx, mapping, funds, port_df, key, agg,
                   output_csv, etf_raw, df, hhi, seventy>>

\* line 99 and normalize(): the table, sorted by weight
EtfNormalize ==
    /\ prog = "etf" /\ pc = "start"
    /\ EtfNormalizes(etf_raw)
    /\ df' \in SortValues(EtfWeights(etf_raw), "weight")
    /\ pc' = "metrics"
    /\ UNCHANGED <<prog, csv_files, fidx, mapping, funds, port_df, key, agg,
                   output_csv, exit_status, etf_raw, hhi, seventy>>

\* line 100, compute_metrics
EtfComputeMetrics ==
    /\ prog = "etf" /\ pc = "metrics"
    /\ hhi' = HHI(Column(df, "weight"))
    /\ pc' = "seventy"
    /\ UNCHANGED <<prog, csv_files, fidx, mapping, funds, port_df, key, agg,
                   output_csv, exit_status, etf_raw, df, seventy>>

\* the threshold of minimal_70, in percent
Threshold == 70

\* Series.cumsum(): the running sum, a missing value kept missing and skipped
CumSum(ws) ==
    [i \in 1..Len(ws) |-> IF IsNaNw(ws[i]) THEN NaNw ELSE RSum(SubSeq(ws, 1, i))]

\* (csum >= 70).idxmax(): the first position that is True, and the first
\* position of all when none is
IdxMax70(csum) ==
    LET hits == {i \in 1..Len(csum) : RLeq(RInt(Threshold), csum[i])}
    IN  IF hits = {} THEN 1 ELSE Least(hits)

minimal_70(rows) == SubSeq(rows, 1, IdxMax70(CumSum(Column(rows, "weight"))))

\* line 101 on a table without rows: idxmax raises ValueError
EtfMinimal70Fails ==
    /\ prog = "etf" /\ pc = "seventy"
    /\ df = <<>>
    /\ Exit(1)
    /\ UNCHANGED <<prog, csv_files, fidx, mapping, funds, port_df, key, agg,
                   output_csv, etf_raw, df, hhi, seventy>>

\* line 101
EtfMinimal70 ==
    /\ prog = "etf" /\ pc = "seventy"
    /\ df # <<>>
    /\ seventy' = minimal_70(df)
    /\ pc' = "report"
    /\ UNCHANGED <<prog, csv_files, fidx, mapping, funds, port_df, key, agg,
                   output_csv, exit_status, etf_raw, df, hhi>>

\* lines 102-103: the report is printed (delivery by mail is outside the model)
EtfReport ==
    /\ prog = "etf" /\ pc = "report"
    /\ Exit(0)
    /\ UNCHANGED <<prog, csv_files, fidx, mapping, funds, port_df, key, agg,
                   output_csv, etf_raw, df, hhi, seventy>>

-----------------------------------------------------------------------------

Next ==
    \/ NoCsvFiles
    \/ StartLoop
    \/ LoadFund
    \/ NoValidFunds
    \/ Consolidate
    \/ Metrics
    \/ MetricsOnEmptyFail
    \/ ReportFails
    \/ ReportWritten
    \/ EtfNormalizeFails
    \/ EtfNormalize
    \/ EtfComputeMetrics
    \/ EtfMinimal70Fails
    \/ EtfMinimal70
    \/ EtfReport

Spec == Init /\ [][Next]_vars

-----------------------------------------------------------------------------
(* The properties.                                                         *)

Weights(rows) == Column(rows, "weight")

Hundred == RInt(100)

\* the weight column of file f as float() reads it, before any scaling
ParsedWeights(f) ==
    LET raw == Column(Project(f, detect_columns(f.columns)), "weight")
    IN  [i \in 1..Len(raw) |-> FloatOf(CleanWeight(raw[i]))]

\* file f passes every test of the loader
Loadable(f) ==
    /\ f.readable
    /\ Resolved(detect_columns(f.columns))
    /\ WeightsParse(Column(Project(f, detect_columns(f.columns)), "weight"))
    /\ ~Degenerate(RSum(normalize_weights(
            Column(Project(f, detect_columns(f.columns)), "weight"))))

LoadedFiles == {funds[k].file : k \in 1..Len(funds)}

\* C1: the weights of every accepted fund table sum to 100, whether the
\* input was fractional or in percent and whatever positive total it had.
C1_FundWeightsSumTo100 ==
    \A k \in 1..Len(funds) : RSum(Weights(funds[k].df)) = Hundred

\* a fund of several rows is accepted whose weights were fractions (sum below
\* 1.5) that do not add up to 1
C1_Witness ==
    \E k \in 1..Len(funds) :
        LET t == RSum(ParsedWeights(csv_files[funds[k].file]))
        IN  RLess(t, Rat(3, 2)) /\ t # RInt(1) /\ Len(funds[k].df) > 1

AllFilesLoaded == Len(funds) = Len(csv_files)

Consolidated == prog = "portfolio" /\ pc \in {"metrics", "report"}

\* C2: when every input fund loads, the portfolio weights of the consolidated
\* holdings sum to 100.
C2_PortfolioSumsTo100 ==
    (Consolidated /\ AllFilesLoaded)
        => RSum(Column(agg, "portfolio_weight_pct")) = Hundred

\* C3: a source that fails is skipped alone: when the run has ended, every
\* source that passes the loader's tests was loaded, and nothing else was.
C3_ErrorIsolation ==
    (prog = "portfolio" /\ pc = "exited")
        => LoadedFiles = {i \in 1..Len(csv_files) : Loadable(csv_files[i])}

\* C4: the run exits non-zero exactly when no file is found or no source
\* loads; otherwise it writes the summary and exits zero.  Stated for the
\* runs whose loader loop went through every file and whose consolidated
\* table, if there is one, has a row, so that neither a run the loader itself
\* aborted (C3) nor a table that lost every row (C2) is what refutes it.
C4_ExitStatus ==
    (/\ prog = "portfolio" /\ pc = "exited"
     /\ fidx > Len(csv_files)
     /\ funds = <<>> \/ agg # <<>>)
        => IF csv_files = <<>> \/ \A i \in 1..Len(csv_files) : ~Loadable(csv_files[i])
           THEN exit_status # 0
           ELSE exit_status = 0 /\ output_csv

SeventyDone == prog = "etf" /\ (pc = "report" \/ (pc = "exited" /\ exit_status = 0))

IsPrefix(s, t) == Len(s) <= Len(t) /\ s = SubSeq(t, 1, Len(s))

\* rows is in descending order of weight, missing weights last
Descending(rows) ==
    \A i, j \in 1..Len(rows) :
        i < j => \/ IsNaNw(rows[j].weight)
                 \/ RLeq(rows[j].weight, rows[i].weight)

\* the cumulative weight of the first n rows
PrefixWeight(rows, n) == RSum(SubSeq(Weights(rows), 1, n))

\* C5: minimal_70 returns a prefix of the table sorted by descending weight
\* whose cumulative weight is at least 70 and falls below 70 without its last
\* row.  Stated for the tables whose weights are all positive numbers, so that
\* no missing and no negative weight is what refutes it.
C5_Minimal70 ==
    (SeventyDone /\ \A i \in 1..Len(df) : RLess(RInt(0), df[i].weight))
        => /\ Descending(df) /\ IsPrefix(seventy, df)
           /\ RLeq(RInt(Threshold), PrefixWeight(seventy, Len(seventy)))
           /\ RLess(PrefixWeight(seventy, Len(seventy) - 1), RInt(Threshold))

HhiDone ==
    \/ prog = "portfolio" /\ pc = "report"
    \/ prog = "etf" /\ pc \in {"seventy", "report"}

\* the weights the HHI was computed over
HhiWeights ==
    IF prog = "portfolio" THEN Column(agg, "portfolio_weight_pct") ELSE Weights(df)

\* C6: the HHI lies in (0, 1], and is 1 exactly when one holding carries
\* 100%.  Stated for the tables with a row whose weights are all positive
\* numbers, so that no empty table and no missing or negative weight is what
\* refutes it.
C6_HhiRange ==
    (/\ HhiDone
     /\ HhiWeights # <<>>
     /\ \A i \in 1..Len(HhiWeights) : RLess(RInt(0), HhiWeights[i]))
        => /\ RLess(RInt(0), hhi) /\ RLeq(hhi, RInt(1))
           /\ hhi = RInt(1) <=> \E i \in 1..Len(HhiWeights) : HhiWeights[i] = Hundred

ReadLast == prog = "portfolio" /\ pc = "load" /\ fidx > 1 /\ csv_files[fidx - 1].readable

\* the labels of columns that hold key k, in column order
Matching(k, columns) ==
    SelectSeq(columns, LAMBDA c : Contains(Lower(c), k)
                                  \/ Contains(Lower(c), ReplaceChar(k, "_", " ")))

\* C7: a key that several labels contain is mapped to the first of them in
\* column order.
C7_FirstMatchWins ==
    ReadLast
        => \A n \in 1..Len(Keys) :
              LET hits == Matching(Keys[n], csv_files[fidx - 1].columns)
              IN  hits # <<>> => /\ Keys[n] \in DOMAIN mapping
                                 /\ mapping[Keys[n]] = hits[1]

NonEmpty(x) == x # NaN /\ x # EmptyText

AnyIsin == \E i \in 1..Len(port_df) : NonEmpty(port_df[i].isin)

\* the total portfolio weight of the rows named n
WeightByName(n) ==
    RSum(Column(SelectSeq(port_df, LAMBDA r : r.name = n), "portfolio_weight_pct"))

\* C8: the holdings are grouped by ISIN when some row has a non-empty ISIN,
\* and otherwise all of them by name alone: one group for each name, holding
\* the weight of every row of that name.
C8_GlobalKey ==
    Consolidated
        => IF AnyIsin THEN key = "isin"
           ELSE {<<agg[i].name, agg[i].portfolio_weight_pct>> : i \in 1..Len(agg)}
                  = {<<port_df[i].name, WeightByName(port_df[i].name)>> :
                        i \in {j \in 1..Len(port_df) : port_df[j].name # NaN}}

\* the first non-empty value of xs, or the empty text
FirstNonEmpty(xs) ==
    LET kept == SelectSeq(xs, NonEmpty)
    IN  IF kept = <<>> THEN EmptyText ELSE kept[1]

MembersOf(g) ==
    SelectSeq(port_df, LAMBDA r : HasKey(r, key) /\ GroupKey(r, key) = GroupKey(g, key))

\* C9: the sector and the country of a group are the first non-empty ones
\* among its rows in row order.
C9_FirstNonEmptySector ==
    Consolidated
        => \A i \in 1..Len(agg) :
              /\ agg[i].sector = FirstNonEmpty(Column(MembersOf(agg[i]), "sector"))
              /\ agg[i].country = FirstNonEmpty(Column(MembersOf(agg[i]), "country"))

InRange(w) == RLeq(RInt(0), w) /\ RLeq(w, Hundred)

\* C10 as stated: every weight of every accepted fund table lies in [0, 100].
C10_WeightRange_AnyInput ==
    \A k \in 1..Len(funds) :
        \A i \in 1..Len(funds[k].df) : InRange(funds[k].df[i].weight)

\* C10 amended: the same for a fund whose input weights are all numbers not
\* below zero (none missing, none negative).
C10_WeightRange ==
    \A k \in 1..Len(funds) :
        LET p == ParsedWeights(csv_files[funds[k].file])
        IN  (\A i \in 1..Len(p) : RLeq(RInt(0), p[i]))
                => \A i \in 1..Len(funds[k].df) : InRange(funds[k].df[i].weight)

\* a fund of several positive weights whose total is not 100 is accepted
C10_Witness ==
    \E k \in 1..Len(funds) :
        LET p == ParsedWeights(csv_files[funds[k].file])
        IN  /\ Len(p) > 1
            /\ \A i \in 1..Len(p) : RLess(RInt(0), p[i])
            /\ RSum(p) # Hundred

====
